---- MODULE Spec2Model ----
(***************************************************************************)
(* A model of the QuickBase REST client (QbRest, QbQueryResponse,          *)
(* QbUpsertResponse, utils).  Asynchronous calls are processes that are    *)
(* suspended at the awaits of the code (fetch, idb-keyval get/set/clear);  *)
(* everything between two awaits is one atomic step of the event loop.     *)
(* Strings whose characters matter (realm, table id, cache key) are        *)
(* sequences of one-character strings.                                     *)
(***************************************************************************)
EXTENDS Integers, Sequences, FiniteSets, TLC

VARIABLES
    now,        \* Date.now(), in milliseconds
    tempTokens, \* QbRest.tempTokens of the instance of each realm: table id -> token
    timers,     \* pending setTimeout callbacks of #getTempAuth
    store,      \* QbRest.queryStore (idb-keyval): cache key -> {data, expires, cached}
    pc,         \* where each call is suspended
    call,       \* the operation each process runs, with its arguments
    loc,        \* the locals a suspended call holds
    result,     \* what a finished call returned or threw
    net,        \* requests sent, warnings logged and the answer of the data
                \* request received by the current call
    treq,       \* the token request (#getTempAuth) of the current call
    issued,     \* tokens the server has issued so far, in order
    calls,      \* how many calls the callers have made
    inp,        \* the arguments a pure function is applied to
    out         \* what the pure function returned

vars == <<now, tempTokens, timers, store, pc, call, loc, result, net, treq, issued,
          calls, inp, out>>

----------------------------------------------------------------------------
(* Bounds of the model *)

MaxTicks == 2
MaxFetches == 2
MaxPreauthCalls == 3
MaxCacheCalls == 2
MaxRecordCalls == 2

\* Two callers, whose calls may overlap.
Procs == {"c1", "c2"}
Caller == "c1"

\* The clock advances in steps of two minutes.
TickMs == 1000 * 60 * 2

----------------------------------------------------------------------------
(* Program constants *)

\* setTimeout(..., 1000 * 60 * 4)
TOKEN_LIFETIME == 1000 * 60 * 4

\* cacheTTL * 1000 * 60
TtlMs(cacheTTL) == cacheTTL * 1000 * 60

\* absent property of tempTokens
NoToken == 0

----------------------------------------------------------------------------
(* Strings as character sequences *)

RealmR == <<"r">>
RealmRT == <<"r", "_", "t">>
DbidU == <<"u">>
DbidTU == <<"t", "_", "u">>

Realms == {RealmR, RealmRT}
Dbids == {DbidU, DbidTU}

----------------------------------------------------------------------------
(* Values *)

NoValue == [none |-> TRUE]
NoArgs == [none |-> TRUE]
NoEntry == [absent |-> TRUE]
NoResult == [kind |-> "none"]
EmptyStore == [k \in {} |-> NoEntry]
NoLoc == [cacheKey |-> <<>>, freshAtCall |-> FALSE, cached |-> NoEntry, auth |-> NoToken, body |-> NoValue,
          entry |-> NoEntry, response |-> NoValue]
NoNet == [auth |-> 0, data |-> 0, warnings |-> {}, http |-> NoValue]
NoTreq == [state |-> "none", hit |-> FALSE, tok |-> NoToken]

\* new Error(message) thrown to the caller
Thrown(message) == [kind |-> "error", message |-> message]
Returned(val) == [kind |-> "ok", val |-> val]

\* json.message of a non-success response; the reason of a rejected fetch
UpstreamMessage == "Invalid application token"
TransportMessage == "Failed to fetch"

\* The tokens issued so far for a table of a realm.
IssuedFor(realm, dbid) ==
    {k \in 1..Len(issued) : issued[k].realm = realm /\ issued[k].dbid = dbid}

----------------------------------------------------------------------------
(* JSON values and JSON.stringify *)

\* A JSON value is null, a number, a string (a sequence of characters), an
\* array, or an object: its properties in insertion order, as <<name, value>>.
JNull == [null |-> TRUE]
JNum(n) == [num |-> n]
JStr(s) == [str |-> s]
JArr(a) == [arr |-> a]
JObj(ps) == [obj |-> ps]

Digit(d) == <<"0", "1", "2", "3", "4", "5", "6", "7", "8", "9">>[d + 1]

RECURSIVE NumStr(_)
\* The decimal text of an integer.
NumStr(n) ==
    IF n < 0 THEN <<"-">> \o NumStr(0 - n)
    ELSE IF n < 10 THEN <<Digit(n)>>
    ELSE NumStr(n \div 10) \o <<Digit(n % 10)>>

RECURSIVE Escape(_)
\* The characters of a string inside a JSON string literal: the quote and
\* the backslash are escaped.
Escape(s) ==
    IF s = <<>> THEN <<>>
    ELSE (IF Head(s) = "\"" THEN <<"\\", "\"">>
          ELSE IF Head(s) = "\\" THEN <<"\\", "\\">>
          ELSE <<Head(s)>>) \o Escape(Tail(s))

Quote(s) == <<"\"">> \o Escape(s) \o <<"\"">>

RECURSIVE JSONstringify(_)
RECURSIVE JoinItems(_)
RECURSIVE JoinProps(_)

\* The elements of an array, separated by commas.
JoinItems(a) ==
    IF a = <<>> THEN <<>>
    ELSE JSONstringify(Head(a))
         \o (IF Len(a) > 1 THEN <<",">> ELSE <<>>) \o JoinItems(Tail(a))

\* The properties of an object, "name":value, separated by commas.
JoinProps(ps) ==
    IF ps = <<>> THEN <<>>
    ELSE Quote(Head(ps)[1]) \o <<":">> \o JSONstringify(Head(ps)[2])
         \o (IF Len(ps) > 1 THEN <<",">> ELSE <<>>) \o JoinProps(Tail(ps))

\* JSON.stringify(v)
JSONstringify(v) ==
    IF "null" \in DOMAIN v THEN <<"n", "u", "l", "l">>
    ELSE IF "num" \in DOMAIN v THEN NumStr(v.num)
    ELSE IF "str" \in DOMAIN v THEN Quote(v.str)
    ELSE IF "arr" \in DOMAIN v THEN <<"[">> \o JoinItems(v.arr) \o <<"]">>
    ELSE <<"{">> \o JoinProps(v.obj) \o <<"}">>

----------------------------------------------------------------------------
(* The response-cache key *)

\* The property names of { fields, qry, sort, options }.
NameFields == <<"f", "i", "e", "l", "d", "s">>
NameQry == <<"q", "r", "y">>
NameSort == <<"s", "o", "r", "t">>
NameOptions == <<"o", "p", "t", "i", "o", "n", "s">>

\* Mutant: the key leaves the sort out.
cacheKey_NoSort(realm, dbid, fields, qry, sort, options) ==
    realm \o <<"_">> \o dbid \o <<"_">>
    \o JSONstringify(JObj(<< <<NameFields, fields>>, <<NameQry, qry>>,
                            <<NameOptions, options>> >>))

\* `${this.realm}_${dbid}_${JSON.stringify({ fields, qry, sort, options })}`
cacheKey(realm, dbid, fields, qry, sort, options) ==
    realm \o <<"_">> \o dbid \o <<"_">>
    \o JSONstringify(JObj(<< <<NameFields, fields>>, <<NameQry, qry>>,
                            <<NameSort, sort>>, <<NameOptions, options>> >>))

\* The key of a query shape [fields, qry, sort, options].
KeyOf(realm, dbid, q) == cacheKey(realm, dbid, q.fields, q.qry, q.sort, q.options)

\* Arguments of queryCache: field ids, a predicate, a sort and options.
FieldLists == {JArr(<<>>), JArr(<<JNum(6)>>), JArr(<<JNum(6), JNum(12)>>),
               JArr(<<JNum(12), JNum(6)>>)}
Predicates == {JStr(<<>>), JStr(<<"{", "3", "}">>), JStr(<<"\"">>), JStr(<<"\\", "\"">>)}
FieldIdName == <<"f", "i", "e", "l", "d", "I", "d">>
Sorts == {JNull, JArr(<<>>), JArr(<<JObj(<< <<FieldIdName, JNum(6)>> >>)>>)}
TopName == <<"t", "o", "p">>
SkipName == <<"s", "k", "i", "p">>
OptionSets == {JNull, JObj(<< <<TopName, JNum(1)>> >>),
               JObj(<< <<SkipName, JNum(1)>> >>)}

QueryShapes ==
    [fields : FieldLists, qry : Predicates, sort : Sorts, options : OptionSets]

----------------------------------------------------------------------------
(* Requests and responses *)

\* A value that is a scalar or an object carries a tag: JNull, JNum, JStr, or
\* Obj(f) for an object with the properties DOMAIN f.
Obj(f) == [object |-> f]

\* { value: v }
Wrap(v) == Obj([value |-> v])

\* JavaScript truthiness of a tagged value.
Truthy(v) ==
    IF "null" \in DOMAIN v THEN FALSE
    ELSE IF "num" \in DOMAIN v THEN v.num # 0
    ELSE IF "str" \in DOMAIN v THEN v.str # <<>>
    ELSE TRUE

\* rawResponse.data || []
DataOf(raw) == IF "data" \in DOMAIN raw THEN raw.data ELSE <<>>

\* rawResponse.fields || []
FieldsOf(raw) == IF "fields" \in DOMAIN raw THEN raw.fields ELSE <<>>

\* rawResponse.metadata || {}
MetadataOf(raw) == IF "metadata" \in DOMAIN raw THEN raw.metadata ELSE <<>>

\* new QbQueryResponse(rawResponse, dbid)
QbQueryResponse(rawResponse, dbid) ==
    [raw |-> rawResponse, data |-> DataOf(rawResponse), fields |-> FieldsOf(rawResponse),
     metadata |-> MetadataOf(rawResponse), dbid |-> dbid]

\* reqdata of query: from, select, where, and sortBy and options when truthy.
QueryBody(dbid, fields, qry, sort, options) ==
    LET base == [from |-> dbid, select |-> fields, where |-> qry]
        withSort == IF Truthy(sort) THEN ("sortBy" :> sort) ELSE <<>>
        withOptions == IF Truthy(options) THEN ("options" :> options) ELSE <<>>
    IN base @@ withSort @@ withOptions

\* reqdata of upsert: to and data; mergeFieldId when truthy.
UpsertBody(dbid, records, mergeFieldId) ==
    LET base == [to |-> dbid, data |-> records]
        withMerge == IF Truthy(mergeFieldId) THEN ("mergeFieldId" :> mergeFieldId)
                     ELSE <<>>
    IN base @@ withMerge

\* new QbUpsertResponse(rawResponse)
QbUpsertResponse(rawResponse) ==
    [raw |-> rawResponse, data |-> DataOf(rawResponse),
     metadata |-> MetadataOf(rawResponse)]

\* Object.keys(o).length of a JSON object.
KeyCount(o) == Len(o.obj)

\* QbUpsertResponse.hasErrors:
\* `!!(this.metadata.lineErrors && Object.keys(this.metadata.lineErrors).length > 0)`
hasErrors(r) ==
    /\ "lineErrors" \in DOMAIN r.metadata
    /\ Truthy(r.metadata.lineErrors)
    /\ KeyCount(r.metadata.lineErrors) > 0

\* QbUpsertResponse.errors: `this.metadata.lineErrors || {}`
errors(r) ==
    IF "lineErrors" \in DOMAIN r.metadata /\ Truthy(r.metadata.lineErrors)
    THEN r.metadata.lineErrors ELSE JObj(<<>>)

\* QbUpsertResponse.createdRecords: `this.metadata.createdRecordIds || []`
createdRecords(r) ==
    IF "createdRecordIds" \in DOMAIN r.metadata THEN r.metadata.createdRecordIds ELSE <<>>

\* QbUpsertResponse.updatedRecords: `this.metadata.updatedRecordIds || []`
updatedRecords(r) ==
    IF "updatedRecordIds" \in DOMAIN r.metadata THEN r.metadata.updatedRecordIds ELSE <<>>

\* QbUpsertResponse.totalProcessed:
\* `this.metadata.totalNumberOfRecordsProcessed || 0`
totalProcessed(r) ==
    IF "totalNumberOfRecordsProcessed" \in DOMAIN r.metadata
    THEN r.metadata.totalNumberOfRecordsProcessed ELSE 0

\* QbUpsertResponse.createdCount, updatedCount
createdCount(r) == Len(createdRecords(r))
updatedCount(r) == Len(updatedRecords(r))

\* Mutant: any processed record counts as success.
wasSuccessful_IgnoresErrors(r) == totalProcessed(r) > 0
\* QbUpsertResponse.wasSuccessful: `!this.hasErrors && this.totalProcessed > 0`
wasSuccessful(r) == ~hasErrors(r) /\ totalProcessed(r) > 0

\* QbUpsertResponse.affectedRecordIds:
\* `[...this.createdRecords, ...this.updatedRecords]`
affectedRecordIds(r) == createdRecords(r) \o updatedRecords(r)

\* The characters of "Upsert Failed: ".
UpsertFailed ==
    <<"U", "p", "s", "e", "r", "t", " ", "F", "a", "i", "l", "e", "d", ":", " ">>

\* Mutant: strictUpsert returns whatever the response reports.
StrictOutcome_Lenient(response) == Returned(response)
\* strictUpsert after `await this.upsert(dbid, records)`:
\* `Upsert Failed: ${JSON.stringify(response.errors)} ` when hasErrors.
StrictOutcome(response) ==
    IF hasErrors(response)
    THEN Thrown(UpsertFailed \o JSONstringify(errors(response)) \o <<" ">>)
    ELSE Returned(response)

UpsertOps == {"upsert", "strictUpsert"}

\* `value && typeof value === 'object' && 'value' in value`: null is
\* falsy, a number or a string is no object, an array has no value property.
IsWrapped(v) == "object" \in DOMAIN v /\ "value" \in DOMAIN v.object

\* Mutant: every value is wrapped, a wrapper included.
normalizeQbFields_AlwaysWrap(fields) == [fieldId \in DOMAIN fields |-> Wrap(fields[fieldId])]
\* normalizeQbFields(fields): an object is a function from its property
\* names to their values.
normalizeQbFields(fields) ==
    [fieldId \in DOMAIN fields |->
        IF IsWrapped(fields[fieldId]) THEN fields[fieldId] ELSE Wrap(fields[fieldId])]

\* `{ 3: recordId, ...fields }`: a property of fields replaces the one
\* written before the spread.
recordData(recordId, fields) ==
    [k \in {"3"} \cup DOMAIN fields |-> IF k \in DOMAIN fields THEN fields[k] ELSE recordId]

\* The field ids of the records of the model, in the order Object.keys
\* lists them (integer-like names ascending).
FieldIds == <<"3", "6">>

\* Object.keys(record)
ObjectKeys(record) == SelectSeq(FieldIds, LAMBDA id : id \in DOMAIN record)

\* QbQueryResponse.fieldMap: field.id, as a property name, to field.label.
FieldMapOf(fields) ==
    [id \in {Digit(fields[i].id) : i \in 1..Len(fields)} |->
        LET last == CHOOSE i \in 1..Len(fields) :
                        /\ Digit(fields[i].id) = id
                        /\ \A j \in 1..Len(fields) : Digit(fields[j].id) = id => j <= i
        IN fields[last].label]

RECURSIVE Transform_DropsUnlabelled(_, _, _, _, _)
\* Mutant: with rekey, a field whose id has no label is left out.
Transform_DropsUnlabelled(record, ids, rekey, mapper, acc) ==
    IF ids = <<>> THEN acc
    ELSE LET id == Head(ids)
             label == IF ~rekey THEN id
                      ELSE IF id \in DOMAIN mapper THEN mapper[id] ELSE ""
         IN Transform_DropsUnlabelled(record, Tail(ids), rekey, mapper,
                IF label = "" THEN acc
                ELSE [k \in DOMAIN acc \cup {label} |->
                         IF k = label THEN record[id].object.value ELSE acc[k]])

RECURSIVE Transform(_, _, _, _, _)
\* The forEach of unpackRecord over the ids still to visit.
Transform(record, ids, rekey, mapper, acc) ==
    IF ids = <<>> THEN acc
    ELSE LET id == Head(ids)
             label == IF ~rekey THEN id
                      ELSE IF id \in DOMAIN mapper THEN mapper[id] ELSE ""
             key == IF label # "" THEN label ELSE id
         IN Transform(record, Tail(ids), rekey, mapper,
                      [k \in DOMAIN acc \cup {key} |->
                          IF k = key THEN record[id].object.value ELSE acc[k]])

\* The error of Object.keys(undefined).
KeysOfUndefined == Thrown("Cannot convert undefined or null to object")

\* Mutant: no rid is added.
unpackRecord_NoRid(class, record, rekey, mapper) ==
    Transform(record, ObjectKeys(record), rekey, mapper, <<>>)
\* QbQueryResponse.unpackRecord(record, rekey, fieldMap) of a response with
\* the field map mapper. The class exported by QbQueryResponse.js adds rid;
\* the second class of that name does not.
unpackRecord(class, record, rekey, mapper) ==
    LET flat == Transform(record, ObjectKeys(record), rekey, mapper, <<>>)
    IN IF class = "exported" /\ "3" \in DOMAIN record
       THEN [k \in DOMAIN flat \cup {"rid"} |->
                IF k = "rid" THEN record["3"].object.value ELSE flat[k]]
       ELSE flat

\* `const mapper = fieldMap || this.fieldMap` in the exported class, where
\* fieldMap is null or an object; this.fieldMap in the second class, whose
\* unpackRecord has no such parameter.
EffectiveMap(class, fieldMap, derived) ==
    IF class = "exported" /\ fieldMap # NoValue THEN fieldMap ELSE derived

\* One record of QbQueryResponse.formattedRecords of a response with the field
\* map derived: unpackRecord(record, true) in the exported class; in the
\* second class the same loop written out, followed by the rid.
formattedRecord(class, record, derived) ==
    IF class = "exported" THEN unpackRecord(class, record, TRUE, derived)
    ELSE LET item == Transform(record, ObjectKeys(record), TRUE, derived, <<>>)
         IN IF "3" \in DOMAIN record
            THEN [k \in DOMAIN item \cup {"rid"} |->
                     IF k = "rid" THEN record["3"].object.value ELSE item[k]]
            ELSE item

\* `{${fid}.EX."${value}"}`
WhereEX(fid, value) ==
    <<"{">> \o NumStr(fid) \o <<".", "E", "X", ".", "\"">>
    \o (IF "num" \in DOMAIN value THEN NumStr(value.num) ELSE value.str)
    \o <<"\"", "}">>

\* The two sources of getRecordByUniqueFid, and of QbQueryResponse.
Impls == {"part_001", "QbRest.js"}
Classes == {"exported", "second"}

\* getRecordByUniqueFid after `await this.query(...)`. part_001 tests
\* `response.count === 0` first; QbRest.js tests it only when strict, and
\* otherwise unpacks `response.records[0]`, undefined for no records.
GetRecordOutcome(impl, class, response, strict) ==
    LET count == Len(response.data)
        first == Returned(unpackRecord(class, response.data[1], FALSE,
                                       FieldMapOf(response.fields)))
        none == Thrown("No records found for unique field")
        many == Thrown("Multiple records found for unique field")
    IN IF impl = "part_001"
       THEN IF count = 0 THEN none
            ELSE IF strict /\ count > 1 THEN many
            ELSE first
       ELSE IF strict /\ count > 1 THEN many
            ELSE IF strict /\ count = 0 THEN none
            ELSE IF count = 0 THEN KeysOfUndefined
            ELSE first

LookupOps == {"getRecordByUniqueFid", "getRecordById"}

----------------------------------------------------------------------------
(* makeRequest and #getTempAuth *)

\* The body makeRequest sends for an operation (JSON.stringify(data)).
RequestBody(c) ==
    IF c.op \in {"query", "queryCache"}
    THEN QueryBody(c.dbid, c.args.fields, c.args.qry, c.args.sort, c.args.options)
    ELSE IF c.op \in LookupOps
    THEN QueryBody(c.dbid, c.args.fields, JStr(WhereEX(c.args.fid, c.args.value)),
                   JNull, JNull)
    ELSE IF c.op \in UpsertOps
    THEN UpsertBody(c.dbid, c.args.records, c.args.mergeFieldId)
    ELSE IF c.op = "updateRecord"
    THEN UpsertBody(c.dbid,
                    <<normalizeQbFields(recordData(c.args.recordId, c.args.fields))>>,
                    JNull)
    ELSE c.args

\* makeRequest after `await this.#getTempAuth(dbid)` has produced a token:
\* the data request is sent with the token in its Authorization header.
\* preauthTable only awaits the token and returns.
AfterToken(p, c, l, n, token) ==
    IF c.op = "preauthTable"
    THEN /\ pc' = [pc EXCEPT ![p] = "done"]
         /\ result' = [result EXCEPT ![p] = Returned(NoValue)]
         /\ loc' = [loc EXCEPT ![p] = NoLoc]
         /\ net' = [net EXCEPT ![p] = n]
    ELSE /\ pc' = [pc EXCEPT ![p] = "req_wait"]
         /\ result' = result
         /\ loc' = [loc EXCEPT ![p] = [l EXCEPT !.auth = token, !.body = RequestBody(c)]]
         /\ net' = [net EXCEPT ![p] = [n EXCEPT !.data = @ + 1]]

\* Mutant: a token cached for any table of the realm counts.
HasToken_AnyTable(realm, dbid) == \E d \in Dbids : tempTokens[realm][d] # NoToken
\* Mutant: the cache test never finds a token.
HasToken_Never(realm, dbid) == FALSE

\* `tableId in this.tempTokens`
HasToken(realm, dbid) == tempTokens[realm][dbid] # NoToken

\* makeRequest up to its first await, with the synchronous part of
\* #getTempAuth: a cached token is returned at once, otherwise the token
\* fetch is sent and the call is suspended.
StartRequest(p, c, l, n) ==
    IF HasToken(c.realm, c.dbid)
    THEN /\ treq' = [treq EXCEPT ![p] =
                [state |-> "returned", hit |-> TRUE,
                 tok |-> tempTokens[c.realm][c.dbid]]]
         /\ AfterToken(p, c, l, n, tempTokens[c.realm][c.dbid])
    ELSE /\ treq' = [treq EXCEPT ![p] =
                [state |-> "pending", hit |-> FALSE, tok |-> NoToken]]
         /\ pc' = [pc EXCEPT ![p] = "auth_wait"]
         /\ loc' = [loc EXCEPT ![p] = l]
         /\ net' = [net EXCEPT ![p] = [n EXCEPT !.auth = @ + 1]]
         /\ result' = result

\* A setTimeout callback is due.  The event loop runs a due callback before
\* it takes any other task, and the clock does not pass a due callback.
TimerDue == \E t \in timers : now >= t.due

\* preauthTable(dbid)
PreauthCall(p, realm, dbid) ==
    /\ pc[p] = "idle"
    /\ calls < MaxPreauthCalls
    /\ calls' = calls + 1
    /\ ~TimerDue
    /\ call' = [call EXCEPT ![p] =
            [op |-> "preauthTable", realm |-> realm, dbid |-> dbid, args |-> NoArgs]]
    /\ StartRequest(p, call'[p], NoLoc, NoNet)
    /\ UNCHANGED <<now, tempTokens, timers, store, issued, inp, out>>

\* The timer #getTempAuth sets for the token it stored.
EvictionTimer(realm, dbid, tok) ==
    [realm |-> realm, dbid |-> dbid, due |-> now + TOKEN_LIFETIME, tok |-> tok]

\* Mutant: a token already cached for the table is kept.
StoreToken_KeepsFirst(tokens, realm, dbid, tok) ==
    IF tokens[realm][dbid] # NoToken THEN tokens
    ELSE [tokens EXCEPT ![realm][dbid] = tok]
\* `this.tempTokens[tableId] = json.temporaryAuthorization`
StoreToken(tokens, realm, dbid, tok) == [tokens EXCEPT ![realm][dbid] = tok]

\* The token fetch answers with a success status: the token is stored, its
\* eviction is scheduled and this.tempTokens[tableId] is returned.
AuthOk(p) ==
    /\ pc[p] = "auth_wait"
    /\ ~TimerDue
    /\ Len(issued) < MaxFetches
    /\ LET c == call[p]
           tok == Len(issued) + 1
       IN /\ issued' = Append(issued, [realm |-> c.realm, dbid |-> c.dbid, at |-> now])
          /\ tempTokens' = StoreToken(tempTokens, c.realm, c.dbid, tok)
          /\ timers' = timers \cup {EvictionTimer(c.realm, c.dbid, tok)}
          /\ treq' = [treq EXCEPT ![p] =
                 [@ EXCEPT !.state = "returned", !.tok = tempTokens'[c.realm][c.dbid]]]
          /\ AfterToken(p, c, loc[p], net[p], tempTokens'[c.realm][c.dbid])
    /\ UNCHANGED <<now, store, call, calls, inp, out>>

\* Mutant: the error drops the upstream message.
AuthError_Generic(how) == Thrown("Get token failed")

\* The error #getTempAuth throws: `Get token failed: ${json.message}` on a
\* non-success status; a rejected fetch propagates its own error.
AuthError(how) ==
    IF how = "status"
    THEN Thrown("Get token failed: " \o UpstreamMessage)
    ELSE Thrown(TransportMessage)

\* The token fetch fails: a non-success status, or the transport rejects.
AuthFail(p, how) ==
    /\ pc[p] = "auth_wait"
    /\ ~TimerDue
    /\ pc' = [pc EXCEPT ![p] = "done"]
    /\ result' = [result EXCEPT ![p] = AuthError(how)]
    /\ treq' = [treq EXCEPT ![p] = [@ EXCEPT !.state = "threw"]]
    /\ loc' = [loc EXCEPT ![p] = NoLoc]
    /\ UNCHANGED <<now, tempTokens, timers, store, call, net, issued, calls, inp, out>>

\* () => { delete this.tempTokens[tableId]; }
TimerFire(t) ==
    /\ t \in timers
    /\ now >= t.due
    /\ tempTokens' = [tempTokens EXCEPT ![t.realm][t.dbid] = NoToken]
    /\ timers' = timers \ {t}
    /\ UNCHANGED <<now, store, pc, call, loc, result, net, treq, issued, calls, inp, out>>

\* Time passes.
Tick ==
    /\ now < MaxTicks * TickMs
    /\ ~TimerDue
    /\ now' = now + TickMs
    /\ UNCHANGED <<tempTokens, timers, store, pc, call, loc, result, net, treq, issued, calls, inp, out>>

\* The caller takes the result; the process may call again.
Return(p) ==
    /\ pc[p] = "done"
    /\ pc' = [pc EXCEPT ![p] = "idle"]
    /\ call' = [call EXCEPT ![p] = NoArgs]
    /\ loc' = [loc EXCEPT ![p] = NoLoc]
    /\ result' = [result EXCEPT ![p] = NoResult]
    /\ net' = [net EXCEPT ![p] = NoNet]
    /\ treq' = [treq EXCEPT ![p] = NoTreq]
    /\ UNCHANGED <<now, tempTokens, timers, store, issued, calls, inp, out>>

----------------------------------------------------------------------------
(* queryCache and clearCache *)

\* get(cacheKey, QbRest.queryStore): the entry, or undefined
Lookup(key) == IF key \in DOMAIN store THEN store[key] ELSE NoEntry

\* Mutant: an entry is still served at the time of its expiry.
Fresh_Inclusive(cached) == cached # NoEntry /\ cached.expires >= now
\* `cached && cached.expires > Date.now()`
Fresh(cached) == cached # NoEntry /\ cached.expires > now

\* Mutant: set replaces an entry but does not bring back a cleared one.
Put_IfPresent(key, entry) ==
    [k \in DOMAIN store |-> IF k = key THEN entry ELSE store[k]]
\* set(cacheKey, entry, QbRest.queryStore)
Put(key, entry) ==
    [k \in DOMAIN store \cup {key} |-> IF k = key THEN entry ELSE store[k]]

\* Mutant: the ttl is taken as seconds.
CacheEntry_Seconds(response, cacheTTL) ==
    [data |-> response.raw, expires |-> now + cacheTTL * 1000, cached |-> now]
\* The entry queryCache writes for a response.
CacheEntry(response, cacheTTL) ==
    [data |-> response.raw, expires |-> now + TtlMs(cacheTTL), cached |-> now]

\* Mutant: the entry, not its data, is wrapped.
CacheHit_WrapsEntry(cached, dbid) == QbQueryResponse(cached, dbid)
\* `return new QbQueryResponse(cached.data, dbid)`
CacheHit(cached, dbid) == QbQueryResponse(cached.data, dbid)

\* Mutant: the error of set reaches the caller.
WriteOutcome_Throws(response, ok) ==
    IF ok THEN Returned(response) ELSE Thrown("Cache write error")
\* What queryCache returns once the set has been answered: the response,
\* whether or not set threw.
WriteOutcome(response, ok) == Returned(response)

\* queryCache(dbid, fields, qry, sort, options, cacheTTL): the key is
\* computed and the store is asked for it. freshAtCall remembers whether
\* the store held an unexpired entry for the key when the call was made.
QueryCacheCall(p, realm, dbid, q, cacheTTL) ==
    /\ pc[p] = "idle"
    /\ calls < MaxCacheCalls
    /\ calls' = calls + 1
    /\ ~TimerDue
    /\ call' = [call EXCEPT ![p] =
            [op |-> "queryCache", realm |-> realm, dbid |-> dbid,
             args |-> [fields |-> q.fields, qry |-> q.qry, sort |-> q.sort,
                       options |-> q.options, cacheTTL |-> cacheTTL]]]
    /\ loc' = [loc EXCEPT ![p] =
            [NoLoc EXCEPT !.cacheKey = KeyOf(realm, dbid, q),
                          !.freshAtCall = Fresh(Lookup(KeyOf(realm, dbid, q)))]]
    /\ pc' = [pc EXCEPT ![p] = "get_wait"]
    /\ UNCHANGED <<now, tempTokens, timers, store, result, net, treq, issued, inp, out>>

\* Mutant: a lookup that finds an expired entry deletes it.
GetDone_DeletesExpired(p, ok) ==
    /\ pc[p] = "get_wait"
    /\ ~TimerDue
    /\ LET cached == IF ok THEN Lookup(loc[p].cacheKey) ELSE NoEntry
           n == IF ok THEN net[p]
                ELSE [net[p] EXCEPT !.warnings = @ \cup {"Cache read error"}]
       IN
       IF ok /\ Fresh(cached)
       THEN /\ result' = [result EXCEPT ![p] =
                   Returned(CacheHit(cached, call[p].dbid))]
            /\ pc' = [pc EXCEPT ![p] = "done"]
            /\ loc' = [loc EXCEPT ![p] = NoLoc]
            /\ UNCHANGED <<net, treq, store>>
       ELSE /\ StartRequest(p, call[p],
                            [loc[p] EXCEPT !.cached = cached, !.freshAtCall = FALSE], n)
            /\ store' = [k \in DOMAIN store \ {loc[p].cacheKey} |-> store[k]]
    /\ UNCHANGED <<now, tempTokens, timers, call, issued, calls, inp, out>>
\* The store answers the get: an unexpired entry is wrapped and returned;
\* a missing or expired entry, or a get that throws (which is logged with
\* console.warn), leads to query().
GetDone(p, ok) ==
    /\ pc[p] = "get_wait"
    /\ ~TimerDue
    /\ LET cached == IF ok THEN Lookup(loc[p].cacheKey) ELSE NoEntry
           n == IF ok THEN net[p]
                ELSE [net[p] EXCEPT !.warnings = @ \cup {"Cache read error"}]
       IN
       IF ok /\ Fresh(cached)
       THEN /\ result' = [result EXCEPT ![p] =
                   Returned(CacheHit(cached, call[p].dbid))]
            /\ pc' = [pc EXCEPT ![p] = "done"]
            /\ loc' = [loc EXCEPT ![p] = NoLoc]
            /\ UNCHANGED <<net, treq>>
       ELSE StartRequest(p, call[p],
                         [loc[p] EXCEPT !.cached = cached, !.freshAtCall = FALSE], n)
    /\ UNCHANGED <<now, tempTokens, timers, store, call, issued, calls, inp, out>>

\* The answer of the data request with a success status.
HttpOk == [ok |-> TRUE, status |-> "200", statusText |-> "OK"]

\* What an operation does with the JSON of a successful data request.
\* queryCache wraps it and asks the store to set the entry; the expiry is
\* computed when set is called. getRecordByUniqueFid and updateRecord
\* return; their locals stay as they were at the return.
AfterResponse(p, json) ==
    LET c == call[p] IN
    IF c.op = "queryCache"
    THEN /\ pc' = [pc EXCEPT ![p] = "set_wait"]
         /\ loc' = [loc EXCEPT ![p] =
                [@ EXCEPT !.response = QbQueryResponse(json, c.dbid),
                          !.entry = CacheEntry(QbQueryResponse(json, c.dbid),
                                               c.args.cacheTTL)]]
         /\ result' = result
    ELSE IF c.op \in LookupOps
    THEN /\ pc' = [pc EXCEPT ![p] = "done"]
         /\ loc' = [loc EXCEPT ![p] = [@ EXCEPT !.response = QbQueryResponse(json, c.dbid)]]
         /\ result' = [result EXCEPT ![p] =
                GetRecordOutcome(c.impl, c.class, QbQueryResponse(json, c.dbid),
                                 c.args.strict)]
    ELSE IF c.op = "updateRecord"
    THEN /\ pc' = [pc EXCEPT ![p] = "done"]
         /\ loc' = loc
         /\ result' = [result EXCEPT ![p] = Returned(QbUpsertResponse(json))]
    ELSE IF c.op = "upsert"
    THEN /\ pc' = [pc EXCEPT ![p] = "done"]
         /\ loc' = loc
         /\ result' = [result EXCEPT ![p] = Returned(QbUpsertResponse(json))]
    ELSE IF c.op = "strictUpsert"
    THEN /\ pc' = [pc EXCEPT ![p] = "done"]
         /\ loc' = [loc EXCEPT ![p] = [@ EXCEPT !.response = QbUpsertResponse(json)]]
         /\ result' = [result EXCEPT ![p] = StrictOutcome(QbUpsertResponse(json))]
    ELSE /\ pc' = [pc EXCEPT ![p] = "done"]
         /\ loc' = [loc EXCEPT ![p] = NoLoc]
         /\ result' = [result EXCEPT ![p] = Returned(QbQueryResponse(json, c.dbid))]

\* The data request answers with a success status.
ReqOk(p, json) ==
    /\ pc[p] = "req_wait"
    /\ ~TimerDue
    /\ AfterResponse(p, json)
    /\ net' = [net EXCEPT ![p] = [@ EXCEPT !.http = HttpOk]]
    /\ UNCHANGED <<now, tempTokens, timers, store, call, treq, issued, calls, inp, out>>

\* The answers of the data request other than a success: a non-success
\* status whose JSON body has a message, has none, or has an empty one; or
\* no answer, the fetch being rejected.
FailureOf(how) ==
    IF how = "message"
    THEN [ok |-> FALSE, status |-> "403", statusText |-> "Forbidden",
          json |-> [message |-> "Access denied"]]
    ELSE IF how = "statusText"
    THEN [ok |-> FALSE, status |-> "403", statusText |-> "Forbidden",
          json |-> [description |-> "Access denied"]]
    ELSE IF how = "emptyMessage"
    THEN [ok |-> FALSE, status |-> "404", statusText |-> "Not Found",
          json |-> [message |-> ""]]
    ELSE [rejected |-> TRUE]

\* Mutant: the error leaves the status out.
RequestError_NoStatus(how) ==
    IF "rejected" \in DOMAIN FailureOf(how) THEN Thrown(TransportMessage)
    ELSE Thrown(FailureOf(how).statusText)
\* `${response?.status}: ${json.message || response.statusText}`; a rejected
\* fetch propagates its own error.
RequestError(how) ==
    LET r == FailureOf(how) IN
    IF "rejected" \in DOMAIN r THEN Thrown(TransportMessage)
    ELSE Thrown(r.status \o ": " \o
                (IF "message" \in DOMAIN r.json /\ r.json.message # ""
                 THEN r.json.message ELSE r.statusText))

\* Mutant: a failed query removes the entry stored under the key of the call.
ReqFail_DropsEntry(p, how) ==
    /\ pc[p] = "req_wait"
    /\ ~TimerDue
    /\ pc' = [pc EXCEPT ![p] = "done"]
    /\ result' = [result EXCEPT ![p] = RequestError(how)]
    /\ loc' = [loc EXCEPT ![p] = NoLoc]
    /\ net' = [net EXCEPT ![p] = [@ EXCEPT !.http = FailureOf(how)]]
    /\ store' = [k \in DOMAIN store \ {loc[p].cacheKey} |-> store[k]]
    /\ UNCHANGED <<now, tempTokens, timers, call, treq, issued, calls, inp, out>>
\* The data request fails: a non-success status, or the transport rejects.
ReqFail(p, how) ==
    /\ pc[p] = "req_wait"
    /\ ~TimerDue
    /\ pc' = [pc EXCEPT ![p] = "done"]
    /\ result' = [result EXCEPT ![p] = RequestError(how)]
    /\ loc' = [loc EXCEPT ![p] = NoLoc]
    /\ net' = [net EXCEPT ![p] = [@ EXCEPT !.http = FailureOf(how)]]
    /\ UNCHANGED <<now, tempTokens, timers, store, call, treq, issued, calls, inp, out>>

\* The store answers the set: the entry is written, or set throws and the
\* error is swallowed; the response is returned either way.
SetDone(p, ok) ==
    /\ pc[p] = "set_wait"
    /\ ~TimerDue
    /\ store' = IF ok THEN Put(loc[p].cacheKey, loc[p].entry) ELSE store
    /\ result' = [result EXCEPT ![p] = WriteOutcome(loc[p].response, ok)]
    /\ pc' = [pc EXCEPT ![p] = "done"]
    /\ loc' = [loc EXCEPT ![p] = NoLoc]
    /\ net' = [net EXCEPT ![p] =
            IF ok THEN @ ELSE [@ EXCEPT !.warnings = @ \cup {"Cache write error"}]]
    /\ UNCHANGED <<now, tempTokens, timers, call, treq, issued, calls, inp, out>>

\* QbRest.clearCache(): the store is asked to clear.
ClearCall(p) ==
    /\ pc[p] = "idle"
    /\ calls < MaxCacheCalls
    /\ calls' = calls + 1
    /\ ~TimerDue
    /\ call' = [call EXCEPT ![p] =
            [op |-> "clearCache", realm |-> <<>>, dbid |-> <<>>, args |-> NoArgs]]
    /\ pc' = [pc EXCEPT ![p] = "clear_wait"]
    /\ UNCHANGED <<now, tempTokens, timers, store, loc, result, net, treq, issued,
                   inp, out>>

\* Mutant: only the expired entries are removed.
Cleared_ExpiredOnly(s) == [k \in {j \in DOMAIN s : s[j].expires > now} |-> s[k]]
\* clear(QbRest.queryStore)
Cleared(s) == EmptyStore

\* The store answers the clear: every entry is removed, or clear throws and
\* the error reaches the caller.
ClearDone(p, ok) ==
    /\ pc[p] = "clear_wait"
    /\ ~TimerDue
    /\ store' = IF ok THEN Cleared(store) ELSE store
    /\ result' = [result EXCEPT ![p] =
            IF ok THEN Returned(NoValue) ELSE Thrown("clear failed")]
    /\ pc' = [pc EXCEPT ![p] = "done"]
    /\ UNCHANGED <<now, tempTokens, timers, call, loc, net, treq, issued, calls, inp, out>>

\* Query responses of the server: the rows of a table at different times.
NameBob == <<"B", "o", "b">>
NameAnn == <<"A", "n", "n">>
RowBob == ("6" :> Wrap(JStr(NameBob))) @@ ("3" :> Wrap(JNum(42)))
RowAnn == ("6" :> Wrap(JStr(NameAnn))) @@ ("3" :> Wrap(JNum(43)))
FieldList == << [id |-> 3, label |-> "Record ID#"], [id |-> 6, label |-> "Name"] >>
PayloadNone == [data |-> <<>>, fields |-> FieldList]
PayloadOne == [data |-> <<RowBob>>, fields |-> FieldList]
PayloadTwo == [data |-> <<RowBob, RowAnn>>, fields |-> FieldList]

\* The queries and TTLs (in minutes) the callers of the cache use.
ShapeA == [fields |-> JArr(<<JNum(6)>>), qry |-> JStr(<<"{", "3", "}">>),
           sort |-> JNull, options |-> JNull]
ShapeB == [ShapeA EXCEPT !.sort = JArr(<<>>)]
CacheShapes == {ShapeA}
CacheTTLs == {0, 2}
StoreTTLs == {-2, 0, 2}
CachePayloads == {PayloadOne, PayloadTwo}

----------------------------------------------------------------------------
(* getRecordByUniqueFid, getRecordById and updateRecord *)

\* getRecordByUniqueFid(dbid, fid, value, fields, strict) of one of the two
\* sources: query() is called with the predicate for fid and value.
GetRecordByUniqueFidCall(p, impl, class, realm, dbid, fid, value, fields, strict) ==
    /\ pc[p] = "idle"
    /\ calls < MaxRecordCalls
    /\ calls' = calls + 1
    /\ ~TimerDue
    /\ call' = [call EXCEPT ![p] =
            [op |-> "getRecordByUniqueFid", impl |-> impl, class |-> class,
             realm |-> realm, dbid |-> dbid,
             args |-> [fid |-> fid, value |-> value, fields |-> fields,
                       strict |-> strict]]]
    /\ StartRequest(p, call'[p], NoLoc, NoNet)
    /\ UNCHANGED <<now, tempTokens, timers, store, issued, inp, out>>

\* getRecordById(dbid, recordId, fields):
\* `this.getRecordByUniqueFid(dbid, 3, recordId, fields, true)`
GetRecordByIdCall(p, impl, class, realm, dbid, recordId, fields) ==
    /\ pc[p] = "idle"
    /\ calls < MaxRecordCalls
    /\ calls' = calls + 1
    /\ ~TimerDue
    /\ call' = [call EXCEPT ![p] =
            [op |-> "getRecordById", impl |-> impl, class |-> class,
             realm |-> realm, dbid |-> dbid,
             args |-> [recordId |-> recordId, fid |-> 3, value |-> recordId,
                       fields |-> fields, strict |-> TRUE]]]
    /\ StartRequest(p, call'[p], NoLoc, NoNet)
    /\ UNCHANGED <<now, tempTokens, timers, store, issued, inp, out>>

\* updateRecord(dbid, recordId, fields): upsert() is called with the one
\* normalized record.
UpdateRecordCall(p, realm, dbid, recordId, fields) ==
    /\ pc[p] = "idle"
    /\ calls < MaxRecordCalls
    /\ calls' = calls + 1
    /\ ~TimerDue
    /\ call' = [call EXCEPT ![p] =
            [op |-> "updateRecord", realm |-> realm, dbid |-> dbid,
             args |-> [recordId |-> recordId, fields |-> fields]]]
    /\ StartRequest(p, call'[p], NoLoc, NoNet)
    /\ UNCHANGED <<now, tempTokens, timers, store, issued, inp, out>>

\* query(dbid, fields, qry, sort, options)
QueryCall(p, realm, dbid, q) ==
    /\ pc[p] = "idle"
    /\ calls < MaxRecordCalls
    /\ calls' = calls + 1
    /\ ~TimerDue
    /\ call' = [call EXCEPT ![p] =
            [op |-> "query", realm |-> realm, dbid |-> dbid,
             args |-> [fields |-> q.fields, qry |-> q.qry, sort |-> q.sort,
                       options |-> q.options]]]
    /\ StartRequest(p, call'[p], NoLoc, NoNet)
    /\ UNCHANGED <<now, tempTokens, timers, store, issued, inp, out>>

\* upsert(dbid, records, mergeFieldId)
UpsertCall(p, realm, dbid, records, mergeFieldId) ==
    /\ pc[p] = "idle"
    /\ calls < MaxRecordCalls
    /\ calls' = calls + 1
    /\ ~TimerDue
    /\ call' = [call EXCEPT ![p] =
            [op |-> "upsert", realm |-> realm, dbid |-> dbid,
             args |-> [records |-> records, mergeFieldId |-> mergeFieldId]]]
    /\ StartRequest(p, call'[p], NoLoc, NoNet)
    /\ UNCHANGED <<now, tempTokens, timers, store, issued, inp, out>>

\* strictUpsert(dbid, records): `await this.upsert(dbid, records)`
StrictUpsertCall(p, realm, dbid, records) ==
    /\ pc[p] = "idle"
    /\ calls < MaxRecordCalls
    /\ calls' = calls + 1
    /\ ~TimerDue
    /\ call' = [call EXCEPT ![p] =
            [op |-> "strictUpsert", realm |-> realm, dbid |-> dbid,
             args |-> [records |-> records, mergeFieldId |-> JNull]]]
    /\ StartRequest(p, call'[p], NoLoc, NoNet)
    /\ UNCHANGED <<now, tempTokens, timers, store, issued, inp, out>>

\* The arguments the callers use, and the answers of the server.
LookupValue == JStr(NameBob)
LookupFields == JArr(<<JNum(3), JNum(6)>>)
LookupPayloads == {PayloadNone, PayloadOne, PayloadTwo}
UpdateId == JNum(7)
NameX == <<"x">>
UpdateFields ==
    { ("6" :> JStr(NameX)),
      ("6" :> Wrap(JStr(NameX))),
      ("6" :> JNull),
      ("3" :> JNum(9)) @@ ("6" :> JStr(NameX)),
      ("3" :> Wrap(JNum(9))) }
UpsertOk ==
    [data |-> <<>>,
     metadata |-> [createdRecordIds |-> <<>>, updatedRecordIds |-> <<7>>,
                   unchangedRecordIds |-> <<>>, totalNumberOfRecordsProcessed |-> 1]]
UpsertPayloads == {UpsertOk}
NameBad == <<"b", "a", "d">>
LineTwo == <<"2">>
LineFive == <<"5">>
UpsertNoErrors ==
    [data |-> <<>>,
     metadata |-> [lineErrors |-> JObj(<<>>), createdRecordIds |-> <<10, 11>>,
                   updatedRecordIds |-> <<>>, totalNumberOfRecordsProcessed |-> 2]]
UpsertPartial ==
    [data |-> <<>>,
     metadata |-> [lineErrors |-> JObj(<< <<LineTwo, JArr(<<JStr(NameBad)>>)>> >>),
                   createdRecordIds |-> <<10>>, updatedRecordIds |-> <<>>,
                   totalNumberOfRecordsProcessed |-> 5]]
UpsertFailedLines ==
    [data |-> <<>>,
     metadata |-> [lineErrors |-> JObj(<< <<LineTwo, JArr(<<JStr(NameBad)>>)>>,
                                         <<LineFive, JArr(<<JStr(NameBad), JStr(NameX)>>)>> >>),
                   totalNumberOfRecordsProcessed |-> 5]]
StrictPayloads == {UpsertOk, UpsertNoErrors, UpsertPartial, UpsertFailedLines}
UpsertRecords == { <<("6" :> Wrap(JStr(NameX)))>>,
                   <<("3" :> Wrap(JNum(7))) @@ ("6" :> Wrap(JStr(NameX)))>> }
QueryOps == {"query", "queryCache"} \cup LookupOps

----------------------------------------------------------------------------
(* Specifications *)

\* The state after `new QbRest(realm, appToken)` for each realm, with an
\* empty query store.
Init ==
    /\ now = 0
    /\ tempTokens = [r \in Realms |-> [d \in Dbids |-> NoToken]]
    /\ timers = {}
    /\ store = EmptyStore
    /\ pc = [p \in Procs |-> "idle"]
    /\ call = [p \in Procs |-> NoArgs]
    /\ loc = [p \in Procs |-> NoLoc]
    /\ result = [p \in Procs |-> NoResult]
    /\ net = [p \in Procs |-> NoNet]
    /\ treq = [p \in Procs |-> NoTreq]
    /\ issued = <<>>
    /\ calls = 0
    /\ inp = NoValue
    /\ out = NoValue

\* Token requests of one client instance (preauthTable), the clock and the
\* eviction timers.
NextAuth ==
    \/ \E p \in Procs, d \in Dbids : PreauthCall(p, RealmR, d)
    \/ \E p \in Procs : AuthOk(p)
    \/ \E p \in Procs, how \in {"status", "reject"} : AuthFail(p, how)
    \/ \E t \in timers : TimerFire(t)
    \/ Tick
    \/ \E p \in Procs : Return(p)

SpecAuth == Init /\ [][NextAuth]_vars

\* queryCache and clearCache calls of one client on one table, with the
\* token requests, the data requests and the store operations they make;
\* the store answers every get, set and clear.
NextCache ==
    \/ \E p \in Procs, q \in CacheShapes, ttl \in CacheTTLs :
           QueryCacheCall(p, RealmR, DbidU, q, ttl)
    \/ \E p \in Procs : GetDone(p, TRUE)
    \/ \E p \in Procs : AuthOk(p)
    \/ \E p \in Procs : AuthFail(p, "status")
    \/ \E p \in Procs, json \in CachePayloads : ReqOk(p, json)
    \/ \E p \in Procs : ReqFail(p, "message")
    \/ \E p \in Procs : SetDone(p, TRUE)
    \/ \E p \in Procs : ClearCall(p)
    \/ \E p \in Procs : ClearDone(p, TRUE)
    \/ \E t \in timers : TimerFire(t)
    \/ Tick
    \/ \E p \in Procs : Return(p)

SpecCache == Init /\ [][NextCache]_vars

\* The same calls made one after the other by one caller, with a store
\* whose get, set and clear may throw.
NextStore ==
    \/ \E q \in CacheShapes, ttl \in StoreTTLs :
           QueryCacheCall(Caller, RealmR, DbidU, q, ttl)
    \/ \E ok \in BOOLEAN : GetDone(Caller, ok)
    \/ AuthOk(Caller)
    \/ AuthFail(Caller, "status")
    \/ \E json \in CachePayloads : ReqOk(Caller, json)
    \/ ReqFail(Caller, "message")
    \/ \E ok \in BOOLEAN : SetDone(Caller, ok)
    \/ ClearCall(Caller)
    \/ \E ok \in BOOLEAN : ClearDone(Caller, ok)
    \/ \E t \in timers : TimerFire(t)
    \/ Tick
    \/ Return(Caller)

SpecStore == Init /\ [][NextStore]_vars

\* Lookups of a record and updates of a record on one table, made one
\* after the other by one caller.
NextRecord ==
    \/ \E impl \in Impls, class \in Classes, strict \in BOOLEAN :
           GetRecordByUniqueFidCall(Caller, impl, class, RealmR, DbidU, 6, LookupValue,
                                    LookupFields, strict)
    \/ \E impl \in Impls, class \in Classes :
           GetRecordByIdCall(Caller, impl, class, RealmR, DbidU, JNum(42), LookupFields)
    \/ \E fields \in UpdateFields :
           UpdateRecordCall(Caller, RealmR, DbidU, UpdateId, fields)
    \/ AuthOk(Caller)
    \/ AuthFail(Caller, "status")
    \/ \E json \in LookupPayloads :
           /\ pc[Caller] = "req_wait" /\ call[Caller].op \in LookupOps
           /\ ReqOk(Caller, json)
    \/ \E json \in UpsertPayloads :
           /\ pc[Caller] = "req_wait" /\ call[Caller].op = "updateRecord"
           /\ ReqOk(Caller, json)
    \/ \E how \in {"message", "statusText", "reject"} : ReqFail(Caller, how)
    \/ \E t \in timers : TimerFire(t)
    \/ Tick
    \/ Return(Caller)

SpecRecord == Init /\ [][NextRecord]_vars

\* Every operation that sends a data request, called by one caller one
\* after the other; the store answers every get and set.
NextOps ==
    \/ QueryCall(Caller, RealmR, DbidU, ShapeA)
    \/ QueryCacheCall(Caller, RealmR, DbidU, ShapeA, 2)
    \/ GetDone(Caller, TRUE)
    \/ SetDone(Caller, TRUE)
    \/ \E records \in UpsertRecords : UpsertCall(Caller, RealmR, DbidU, records, JNull)
    \/ \E records \in UpsertRecords : StrictUpsertCall(Caller, RealmR, DbidU, records)
    \/ UpdateRecordCall(Caller, RealmR, DbidU, UpdateId, "6" :> JStr(NameX))
    \/ \E strict \in BOOLEAN :
           GetRecordByUniqueFidCall(Caller, "part_001", "exported", RealmR, DbidU, 6,
                                    LookupValue, LookupFields, strict)
    \/ GetRecordByIdCall(Caller, "part_001", "exported", RealmR, DbidU, JNum(42),
                         LookupFields)
    \/ AuthOk(Caller)
    \/ AuthFail(Caller, "status")
    \/ \E json \in LookupPayloads :
           /\ pc[Caller] = "req_wait" /\ call[Caller].op \in QueryOps
           /\ ReqOk(Caller, json)
    \/ \E json \in StrictPayloads :
           /\ pc[Caller] = "req_wait"
           /\ call[Caller].op \in UpsertOps \cup {"updateRecord"}
           /\ ReqOk(Caller, json)
    \/ \E how \in {"message", "statusText", "emptyMessage", "reject"} :
           ReqFail(Caller, how)
    \/ \E t \in timers : TimerFire(t)
    \/ Tick
    \/ Return(Caller)

SpecOps == Init /\ [][NextOps]_vars

\* The query store is an IndexedDB database and outlives the page: a new
\* client may find the entries that queryCache calls of earlier sessions,
\* of any realm, have written. Two minutes ago one session wrote an entry
\* with a ttl of 0 and another one an entry with a ttl of 5.
EarlierEntry(json, cacheTTL) ==
    [data |-> json, expires |-> (0 - TickMs) + TtlMs(cacheTTL), cached |-> 0 - TickMs]
EarlierStores ==
    { (KeyOf(RealmR, DbidU, ShapeA) :> EarlierEntry(PayloadOne, a))
          @@ (KeyOf(RealmRT, DbidTU, ShapeA) :> EarlierEntry(PayloadTwo, b)) :
          a \in {0, 5}, b \in {0, 5} }

InitClear ==
    /\ Init!1 /\ Init!2 /\ Init!3 /\ Init!5 /\ Init!6 /\ Init!7 /\ Init!8
    /\ Init!9 /\ Init!10 /\ Init!11 /\ Init!12 /\ Init!13 /\ Init!14
    /\ store \in EarlierStores

\* clearCache and queryCache calls of the clients of two realms on a store
\* that holds entries of both.
NextClear ==
    \/ \E p \in Procs : QueryCacheCall(p, RealmR, DbidU, ShapeA, 2)
    \/ \E p \in Procs : QueryCacheCall(p, RealmRT, DbidTU, ShapeA, 2)
    \/ \E p \in Procs : GetDone(p, TRUE)
    \/ \E p \in Procs : AuthOk(p)
    \/ \E p \in Procs : ReqOk(p, PayloadTwo)
    \/ \E p \in Procs : SetDone(p, TRUE)
    \/ \E p \in Procs : ClearCall(p)
    \/ \E p \in Procs : ClearDone(p, TRUE)
    \/ \E t \in timers : TimerFire(t)
    \/ Tick
    \/ \E p \in Procs : Return(p)

SpecClear == InitClear /\ [][NextClear]_vars

\* The calls of SpecClear, one more of them than MaxCacheCalls: a queryCache,
\* a clearCache that completes while it is in flight, and the queryCache
\* that follows the clearCache take three calls. The store holds an expired
\* entry of one table and an unexpired entry of the other.
InitRace ==
    /\ Init!1 /\ Init!2 /\ Init!3 /\ Init!5 /\ Init!6 /\ Init!7 /\ Init!8
    /\ Init!9 /\ Init!10 /\ Init!11 /\ Init!13 /\ Init!14
    /\ store \in { s \in EarlierStores :
                      /\ s[KeyOf(RealmR, DbidU, ShapeA)].expires <= 0
                      /\ s[KeyOf(RealmRT, DbidTU, ShapeA)].expires > 0 }
    /\ calls = 0 - 1

SpecRace == InitRace /\ [][NextClear]_vars

\* queryCache calls of the clients of two realms on three tables, two of
\* them in one realm. The server answers a query with the records of the
\* table it was made for: each table has its own.
NextTables ==
    LET Tables == { <<RealmR, DbidTU>>, <<RealmRT, DbidU>>, <<RealmR, DbidU>> }
        TableData(realm, dbid) ==
            IF realm = RealmR /\ dbid = DbidTU THEN PayloadOne
            ELSE IF realm = RealmRT /\ dbid = DbidU THEN PayloadTwo
            ELSE PayloadNone
    IN \/ \E p \in Procs, t \in Tables : QueryCacheCall(p, t[1], t[2], ShapeA, 2)
       \/ \E p \in Procs : GetDone(p, TRUE)
       \/ \E p \in Procs : AuthOk(p)
       \/ \E p \in Procs : AuthFail(p, "status")
       \/ \E p \in Procs :
              /\ pc[p] = "req_wait"
              /\ ReqOk(p, TableData(call[p].realm, call[p].dbid))
       \/ \E p \in Procs : SetDone(p, TRUE)
       \/ \E t \in timers : TimerFire(t)
       \/ Tick
       \/ \E p \in Procs : Return(p)

SpecTables == Init /\ [][NextTables]_vars

----------------------------------------------------------------------------
(* The record and response functions applied to their inputs *)

\* Wire records over the field ids of the model, each value a scalar in its
\* wrapper; 0 and the empty string are the falsy ones.
WireRecords ==
    UNION { [ids -> {Wrap(v) : v \in {JNum(42), JNum(0), JStr(NameBob), JStr(<<>>)}}] :
                ids \in SUBSET {"3", "6"} }

\* Arguments of unpackRecord and the field map of the response it is
\* called on: no label at all, a label for field 6 only, for both, and an
\* empty label; the fieldMap argument is null (the default) or a map.
UnpackInputs ==
    [fn : {"unpackRecord"}, class : Classes, record : WireRecords, rekey : BOOLEAN,
     derived : { <<>>, ("6" :> "Name"), ("3" :> "Record ID#") @@ ("6" :> "Name"),
                 ("6" :> "") },
     fieldMap : { NoValue, <<>>, ("6" :> "Who") }]

\* Arguments of normalizeQbFields: null, scalars, an array, an object
\* without a value property, and wrappers (of a scalar, of null, and one
\* with a further property).
NormalizeInputs ==
    LET FieldValues ==
            { JNull, JNum(0), JStr(NameBob), JArr(<<JNum(1)>>),
              Obj([label |-> JStr(NameBob)]),
              Wrap(JNum(42)), Wrap(JNull), Obj([value |-> JNum(1), extra |-> JNull]) }
    IN { [fn |-> "normalizeQbFields", fields |-> f] :
             f \in UNION { [ids -> FieldValues] : ids \in SUBSET {"6", "7"} } }

\* Upsert answers: each property of metadata absent or present, and one
\* answer with no metadata.
UpsertAnswers ==
    LET Part(name, vals) == { <<>> } \cup { (name :> v) : v \in vals }
        LineErrorMaps ==
            { JObj(<<>>), JObj(<< <<LineTwo, JArr(<<JStr(NameBad)>>)>> >>),
              JObj(<< <<LineTwo, JArr(<<JStr(NameBad)>>)>>,
                      <<LineFive, JArr(<<JStr(NameBad)>>)>> >>) }
    IN { [data |-> <<>>] } \cup
       { [data |-> <<>>, metadata |-> le @@ cr @@ up @@ tot] :
             le \in Part("lineErrors", LineErrorMaps),
             cr \in Part("createdRecordIds", { <<>>, <<10, 11>> }),
             up \in Part("updatedRecordIds", { <<>>, <<12>> }),
             tot \in Part("totalNumberOfRecordsProcessed", {0, 2, 5}) }

InitPure ==
    /\ Init!1 /\ Init!2 /\ Init!3 /\ Init!4 /\ Init!5 /\ Init!6 /\ Init!7
    /\ Init!8 /\ Init!9 /\ Init!10 /\ Init!11 /\ Init!12
    /\ inp \in UnpackInputs \cup NormalizeInputs
                 \cup [fn : {"QbUpsertResponse"}, rawResponse : UpsertAnswers]
    /\ out = NoValue

\* unpackRecord(record, rekey, fieldMap) and formattedRecords on a response
\* whose fields give the map derived, and normalizeQbFields of the result.
Unpack ==
    /\ out = NoValue /\ inp.fn = "unpackRecord"
    /\ LET flat == unpackRecord(inp.class, inp.record, inp.rekey,
                                EffectiveMap(inp.class, inp.fieldMap, inp.derived))
       IN out' = [flat |-> flat,
                  formatted |-> formattedRecord(inp.class, inp.record, inp.derived),
                  wire |-> normalizeQbFields(flat)]
    /\ UNCHANGED <<now, tempTokens, timers, store, pc, call, loc, result, net, treq,
                   issued, calls, inp>>

\* normalizeQbFields(fields), and normalizeQbFields of its result.
Normalize ==
    /\ out = NoValue /\ inp.fn = "normalizeQbFields"
    /\ out' = [once |-> normalizeQbFields(inp.fields),
               twice |-> normalizeQbFields(normalizeQbFields(inp.fields))]
    /\ UNCHANGED <<now, tempTokens, timers, store, pc, call, loc, result, net, treq,
                   issued, calls, inp>>

\* new QbUpsertResponse(rawResponse) and its getters.
ReadUpsert ==
    /\ out = NoValue /\ inp.fn = "QbUpsertResponse"
    /\ LET r == QbUpsertResponse(inp.rawResponse)
       IN out' = [hasErrors |-> hasErrors(r), wasSuccessful |-> wasSuccessful(r),
                  errors |-> errors(r), totalProcessed |-> totalProcessed(r),
                  createdCount |-> createdCount(r), updatedCount |-> updatedCount(r),
                  affectedRecordIds |-> affectedRecordIds(r)]
    /\ UNCHANGED <<now, tempTokens, timers, store, pc, call, loc, result, net, treq,
                   issued, calls, inp>>

NextPure == Unpack \/ Normalize \/ ReadUpsert

SpecPure == InitPure /\ [][NextPure]_vars

----------------------------------------------------------------------------
(* Claims about the credential cache, under SpecAuth *)

\* The token request of p has begun in this step.
TokenRequestBegins(p) == treq[p].state = "none" /\ treq'[p].state # "none"

\* The token fetch of p has been answered in this step.
TokenFetchAnswered(p) == treq[p].state = "pending" /\ treq'[p].state # "pending"

\* C1: a token stored at T0 is returned unchanged by every token request for
\* its resource made in [T0, T0 + 4 min), whatever the interleaving, and a
\* request made when every stored token of the resource is 4 min old or
\* older fetches afresh.
C1_TokenServedForLifetime ==
    [][\A p \in Procs :
        TokenRequestBegins(p) =>
            LET known == IssuedFor(call'[p].realm, call'[p].dbid) IN
            /\ \A k \in known :
                   now < issued[k].at + TOKEN_LIFETIME =>
                       treq'[p].hit /\ treq'[p].tok = k
            /\ ( /\ known # {}
                 /\ \A k \in known : now >= issued[k].at + TOKEN_LIFETIME )
               => ~treq'[p].hit
    ]_vars

\* C7: a token request for a resource with a cached token returns that token
\* and sends no token fetch; with no cached token it sends exactly one token
\* fetch and, when the fetch succeeds, stores the token under the resource
\* id, schedules its eviction after the lifetime and returns it.
C7_TokenRequest ==
    [][\A p \in Procs :
        /\ TokenRequestBegins(p) =>
              LET c == call'[p] IN
              IF tempTokens[c.realm][c.dbid] # NoToken
              THEN /\ treq'[p].state = "returned"
                   /\ treq'[p].tok = tempTokens[c.realm][c.dbid]
                   /\ net'[p].auth = 0
                   /\ tempTokens' = tempTokens /\ timers' = timers
              ELSE /\ treq'[p].state = "pending"
                   /\ net'[p].auth = 1
        /\ (TokenFetchAnswered(p) /\ treq'[p].state = "returned") =>
              LET c == call[p] IN
              /\ net'[p].auth = 1
              /\ treq'[p].tok # NoToken
              /\ treq'[p].tok \notin 1..Len(issued)
              /\ tempTokens' = [tempTokens EXCEPT ![c.realm][c.dbid] = treq'[p].tok]
              /\ \E t \in timers' \ timers :
                     /\ t.realm = c.realm /\ t.dbid = c.dbid
                     /\ t.due = now + 1000 * 60 * 4
    ]_vars

\* C7 witness: one token request was served from the cache and another one
\* fetched, stored and returned a token.
C7_Witness ==
    \E p, q \in Procs :
        /\ treq[p].state = "returned" /\ treq[p].hit
        /\ treq[q].state = "returned" /\ ~treq[q].hit /\ treq[q].tok # NoToken

\* C8: when the token fetch fails (non-success status or transport failure)
\* the token request throws an error carrying the upstream message, sends no
\* second fetch, stores no token and schedules no eviction.
C8_TokenFetchFailure ==
    [][\A p \in Procs :
        (pc[p] = "auth_wait" /\ treq'[p].state = "threw") =>
            /\ pc'[p] = "done"
            /\ result'[p].kind = "error"
            /\ result'[p].message \in
                   {"Get token failed: Invalid application token", "Failed to fetch"}
            /\ net'[p].auth = 1
            /\ tempTokens' = tempTokens
            /\ timers' = timers
            /\ issued' = issued
    ]_vars

\* C8 witness: a token request has failed, and nothing is cached for its
\* resource, so that the next request for it fetches again.
C8_Witness ==
    \E p \in Procs :
        /\ treq[p].state = "threw" /\ result[p].kind = "error"
        /\ ~HasToken(call[p].realm, call[p].dbid)

----------------------------------------------------------------------------
(* Claims about the query cache, under SpecCache and SpecStore *)

\* The store has answered the get of p's queryCache in this step.
LookupAnswered(p) == pc[p] = "get_wait" /\ pc'[p] # "get_wait"

\* The store has answered the set of p's queryCache in this step.
WriteAnswered(p) == pc[p] = "set_wait" /\ pc'[p] # "set_wait"

\* The entry stored under the key of p's queryCache.
EntryOf(p) == Lookup(loc[p].cacheKey)

\* p's call has sent exactly one request so far, the token fetch or the
\* data request of its network query.
QueryBegun(p) == net'[p].auth + net'[p].data = 1

\* C2: when the lookup of queryCache finds an unexpired entry, the call
\* returns a response wrapping exactly the stored payload together with the
\* caller's table id, and sends neither a token fetch nor a data request.
C2_HitServesStoredPayload ==
    [][\A p \in Procs :
        (LookupAnswered(p) /\ EntryOf(p) # NoEntry /\ now < EntryOf(p).expires) =>
            /\ pc'[p] = "done"
            /\ result'[p].kind = "ok"
            /\ result'[p].val.raw = EntryOf(p).data
            /\ result'[p].val.dbid = call[p].dbid
            /\ net'[p].auth = 0 /\ net'[p].data = 0
            /\ treq'[p].state = "none"
            /\ issued' = issued
    ]_vars

\* C2 witness: a queryCache call has returned the stored payload and its own
\* table id without sending any request.
C2_Witness ==
    \E p \in Procs :
        /\ pc[p] = "done" /\ call[p].op = "queryCache"
        /\ result[p].kind = "ok"
        /\ \E k \in DOMAIN store : result[p].val.raw = store[k].data
        /\ result[p].val.dbid = DbidU
        /\ net[p].auth = 0 /\ net[p].data = 0

\* C3: a lookup that the store answers serves the entry exactly when the
\* current time is strictly less than its expiry; at the expiry or later,
\* and therefore for an entry written with a ttl of 0 or less, the entry is
\* treated like a missing one and the network query is made.
C3_ServedIffUnexpired ==
    [][ (LookupAnswered(Caller) /\ "Cache read error" \notin net'[Caller].warnings) =>
            LET e == EntryOf(Caller)
                served == pc'[Caller] = "done" /\ result'[Caller].kind = "ok"
            IN /\ served <=> (e # NoEntry /\ now < e.expires)
               /\ ~served => /\ pc'[Caller] \in {"auth_wait", "req_wait"}
                             /\ QueryBegun(Caller)
               /\ (e # NoEntry /\ e.expires <= e.cached) => ~served
    ]_vars

\* C3 witness: the lookup found an entry written with a positive ttl at the
\* very time of its expiry, and the call went to the network.
C3_Witness ==
    /\ pc[Caller] \in {"auth_wait", "req_wait"}
    /\ net[Caller].warnings = {}
    /\ loc[Caller].cached # NoEntry
    /\ loc[Caller].cached.cached < loc[Caller].cached.expires
    /\ loc[Caller].cached.expires = now

\* C4 (as amended): a queryCache call that misses and whose query succeeds
\* has sent exactly one data request; it asks the store to write, under its
\* key, the raw result with an expiry of the time of that request to the
\* store plus ttl * 60000 ms, the entry replaces whatever was stored under
\* the key, and the call returns the response of the query. A later lookup
\* for the same key that completes while the entry is stored and before its
\* expiry is a hit that returns the entry's payload.
C4_MissWritesEntry ==
    [][\A p \in Procs :
        /\ (pc[p] = "req_wait" /\ pc'[p] = "set_wait") =>
              /\ net'[p].data = 1
              /\ loc'[p].entry.data = loc'[p].response.raw
              /\ loc'[p].entry.expires = now + call[p].args.cacheTTL * 60000
        /\ WriteAnswered(p) =>
              /\ net'[p].data = 1
              /\ result'[p] = Returned(loc[p].response)
              /\ DOMAIN store' = DOMAIN store \cup {loc[p].cacheKey}
              /\ store'[loc[p].cacheKey] = loc[p].entry
              /\ \A k \in DOMAIN store \ {loc[p].cacheKey} : store'[k] = store[k]
        /\ (LookupAnswered(p) /\ EntryOf(p) # NoEntry /\ now < EntryOf(p).expires) =>
              /\ pc'[p] = "done"
              /\ result'[p].kind = "ok"
              /\ result'[p].val.raw = EntryOf(p).data
    ]_vars

\* C4 witness: one call missed, queried and wrote its entry; an identical
\* call was then served that payload from the store.
C4_Witness ==
    \E p, q \in Procs :
        /\ pc[p] = "done" /\ result[p].kind = "ok" /\ net[p].data = 1
        /\ pc[q] = "done" /\ result[q].kind = "ok" /\ net[q].data = 0
        /\ call[p].op = "queryCache" /\ call[q].op = "queryCache"
        /\ call[p].args.fields = call[q].args.fields
        /\ call[p].args.qry = call[q].args.qry
        /\ result[q].val.raw = result[p].val.raw
        /\ \E k \in DOMAIN store : store[k].data = result[p].val.raw

\* C4 (as stated): as above, but every identical call made while the store
\* holds an unexpired entry for the key, and answered with an entry still
\* stored, is a hit.
C4_AsStated ==
    [][\A p \in Procs :
        /\ WriteAnswered(p) =>
              /\ net'[p].data = 1
              /\ store'[loc[p].cacheKey] = loc[p].entry
        /\ (LookupAnswered(p) /\ loc[p].freshAtCall /\ EntryOf(p) # NoEntry) =>
              /\ pc'[p] = "done"
              /\ result'[p].kind = "ok"
              /\ result'[p].val.raw = EntryOf(p).data
    ]_vars

\* C5: a failure of the store never fails queryCache. When the get throws
\* the call proceeds to the network query as on a miss; when the set throws
\* the call still returns the response of the query and the store is as it
\* was; an error returned by queryCache comes from the token fetch or the
\* data request only.
C5_StoreFailureSwallowed ==
    [][ /\ (LookupAnswered(Caller) /\ "Cache read error" \in net'[Caller].warnings) =>
              /\ pc'[Caller] \in {"auth_wait", "req_wait"}
              /\ QueryBegun(Caller)
              /\ result'[Caller] = NoResult
              /\ store' = store
        /\ WriteAnswered(Caller) =>
              /\ pc'[Caller] = "done"
              /\ result'[Caller] = Returned(loc[Caller].response)
              /\ "Cache write error" \in net'[Caller].warnings => store' = store
        /\ ( /\ result[Caller].kind # "error"
             /\ result'[Caller].kind = "error"
             /\ call[Caller].op = "queryCache" )
           => pc[Caller] \in {"auth_wait", "req_wait"}
    ]_vars

\* C5 witness: a queryCache call whose get and whose set both threw has
\* returned the response of its network query, and nothing was stored.
C5_Witness ==
    /\ pc[Caller] = "done" /\ call[Caller].op = "queryCache"
    /\ net[Caller].warnings = {"Cache read error", "Cache write error"}
    /\ net[Caller].data = 1
    /\ result[Caller].kind = "ok"
    /\ result[Caller].val.raw \in CachePayloads
    /\ store = EmptyStore

----------------------------------------------------------------------------
(* Claims about the record operations, under SpecRecord *)

\* C9: getRecordByUniqueFid sends one query for fid = value; it throws the
\* not-found error when the answer has no record, strict or not, the
\* ambiguous-match error when strict and the answer has more than one
\* record, and otherwise returns the first record flattened. getRecordById
\* asks for field 3 = recordId and is always strict.
C9_LookupOutcome ==
    ( /\ pc[Caller] = "done"
      /\ call[Caller].op \in LookupOps
      /\ loc[Caller].response # NoValue )
    => LET c == call[Caller]
           records == loc[Caller].response.raw.data
           byId == c.op = "getRecordById"
           strict == byId \/ c.args.strict
           where == IF byId
                    THEN <<"{", "3", ".", "E", "X", ".", "\"", "4", "2", "\"", "}">>
                    ELSE <<"{", "6", ".", "E", "X", ".", "\"", "B", "o", "b", "\"", "}">>
       IN /\ net[Caller].data = 1
          /\ loc[Caller].body.where = JStr(where)
          /\ IF Len(records) = 0
             THEN result[Caller] = Thrown("No records found for unique field")
             ELSE IF strict /\ Len(records) > 1
             THEN result[Caller] = Thrown("Multiple records found for unique field")
             ELSE /\ result[Caller].kind = "ok"
                  /\ \A id \in DOMAIN records[1] :
                         /\ id \in DOMAIN result[Caller].val
                         /\ result[Caller].val[id] = records[1][id].object.value

\* C10: updateRecord sends one upsert whose data is a single record in
\* which field "3" is {value: recordId}, whatever fields holds for "3", and
\* in which every other entry of fields is normalized.
C10_UpdateCarriesRecordId ==
    (pc[Caller] = "req_wait" /\ call[Caller].op = "updateRecord")
    => LET c == call[Caller]
           body == loc[Caller].body
           fields == c.args.fields
       IN /\ net[Caller].data = 1
          /\ body.to = c.dbid
          /\ Len(body.data) = 1
          /\ DOMAIN body.data[1] = {"3"} \cup DOMAIN fields
          /\ body.data[1]["3"] = [object |-> [value |-> c.args.recordId]]
          /\ \A k \in DOMAIN fields \ {"3"} :
                 body.data[1][k] =
                     IF "object" \in DOMAIN fields[k] /\ "value" \in DOMAIN fields[k].object
                     THEN fields[k]
                     ELSE [object |-> [value |-> fields[k]]]

----------------------------------------------------------------------------
(* Claims about strictUpsert and about failed data requests, under SpecOps *)

\* The data request of the caller has been answered in this step.
RequestAnswered(p) == pc[p] = "req_wait" /\ pc'[p] # "req_wait"

\* C11: strictUpsert sends exactly one upsert; once the upsert has been
\* answered it throws exactly when lineErrors of the answer is a non-empty
\* map, with a message that holds the whole map as JSON, and otherwise it
\* returns the upsert response as it is.
C11_StrictUpsert ==
    ( /\ pc[Caller] = "done"
      /\ call[Caller].op = "strictUpsert"
      /\ net[Caller].http = HttpOk )
    => LET response == loc[Caller].response
           m == response.raw.metadata
           lines == IF "lineErrors" \in DOMAIN m THEN m.lineErrors ELSE JNull
           failed == "obj" \in DOMAIN lines /\ lines.obj # <<>>
       IN /\ net[Caller].data = 1
          /\ loc[Caller].body = [to |-> call[Caller].dbid,
                                 data |-> call[Caller].args.records]
          /\ failed <=> result[Caller].kind = "error"
          /\ failed => result[Caller].message =
                           UpsertFailed \o JSONstringify(lines) \o <<" ">>
          /\ ~failed => result[Caller] = [kind |-> "ok", val |-> response]

\* C11 witness: a strictUpsert whose upsert was answered with two failed
\* lines has thrown.
C11_Witness ==
    /\ pc[Caller] = "done"
    /\ call[Caller].op = "strictUpsert"
    /\ net[Caller].http = HttpOk /\ net[Caller].data = 1
    /\ loc[Caller].response.raw = UpsertFailedLines
    /\ result[Caller].kind = "error"

\* C12: when the data request of any operation is answered with a
\* non-success status the operation throws an error whose message is the
\* status, then the message of the body, or the status text when the body
\* has no message; an operation that sent a data request returns a value
\* only when the answer had a success status.
C12_RequestFailure ==
    [][ /\ RequestAnswered(Caller) =>
              LET h == net'[Caller].http IN
              ("ok" \in DOMAIN h /\ ~h.ok) =>
                  /\ pc'[Caller] = "done"
                  /\ result'[Caller].kind = "error"
                  /\ result'[Caller].message =
                         h.status \o ": " \o
                         (IF "message" \in DOMAIN h.json /\ h.json.message # ""
                          THEN h.json.message ELSE h.statusText)
        /\ (result'[Caller].kind = "ok" /\ net'[Caller].data > 0) =>
              /\ net'[Caller].data = 1
              /\ net'[Caller].http = HttpOk
    ]_vars

\* C12 witness: an upsert was answered 404 with an empty message and threw
\* the status with the status text.
C12_Witness ==
    /\ pc[Caller] = "done"
    /\ call[Caller].op \in UpsertOps
    /\ net[Caller].http = FailureOf("emptyMessage")
    /\ result[Caller] = [kind |-> "error", message |-> "404: Not Found"]

\* C19: a stored token is removed only by the eviction that was scheduled
\* when it was stored, and not before 4 minutes after it was stored: an
\* eviction scheduled for one token never removes a later token of the same
\* table; and a token request that reads the cache removes nothing.
C19_EvictedByOwnTimer ==
    [][ /\ \A r \in Realms, d \in Dbids :
               (tempTokens[r][d] # NoToken /\ tempTokens'[r][d] = NoToken) =>
                   \E t \in timers \ timers' :
                       /\ t.realm = r /\ t.dbid = d
                       /\ t.tok = tempTokens[r][d]
                       /\ now >= issued[t.tok].at + TOKEN_LIFETIME
        /\ \A p \in Procs :
               (TokenRequestBegins(p) /\ treq'[p].hit) => tempTokens' = tempTokens
    ]_vars

\* C20: a token request that finds no token cached sends its own fetch,
\* whether or not another fetch for the table is pending; the cache holds,
\* for each table, no token or one token issued for that table; a fetch
\* that succeeds leaves its own token in the cache, so that after two
\* overlapping fetches the cached token is that of the fetch that completed
\* last; and each caller gets the token that is cached when its own fetch
\* completes.
C20_OverlappingFetches ==
    [][ /\ \A p \in Procs :
               (TokenRequestBegins(p)
                    /\ tempTokens[call'[p].realm][call'[p].dbid] = NoToken) =>
                   /\ treq'[p].state = "pending"
                   /\ net'[p].auth = 1
        /\ \A r \in Realms, d \in Dbids :
               tempTokens'[r][d] # NoToken => tempTokens'[r][d] \in IssuedFor(r, d)'
        /\ \A p \in Procs :
               (TokenFetchAnswered(p) /\ treq'[p].state = "returned") =>
                   /\ Len(issued') = Len(issued) + 1
                   /\ tempTokens'[call[p].realm][call[p].dbid] = Len(issued')
                   /\ treq'[p].tok = Len(issued')
    ]_vars

\* C20 witness: two calls for one table both found no token and both
\* fetches succeeded before any eviction was due; the second token is the
\* cached one and each caller has its own.
C20_Witness ==
    \E p, q \in Procs :
        /\ p # q /\ now < TOKEN_LIFETIME
        /\ pc[p] = "done" /\ pc[q] = "done"
        /\ call[p].realm = call[q].realm /\ call[p].dbid = call[q].dbid
        /\ treq[p].state = "returned" /\ ~treq[p].hit /\ treq[p].tok = 1
        /\ treq[q].state = "returned" /\ ~treq[q].hit /\ treq[q].tok = 2
        /\ tempTokens[call[q].realm][call[q].dbid] = 2

\* C22: when queryCache has missed and its query fails, by the token fetch
\* or by a non-success status of the data request, the caller gets that
\* error and the store is as it was: nothing is written under the key, and
\* the expired entry the lookup found is still there, unchanged.
C22_FailedQueryLeavesStore ==
    [][ ( /\ pc[Caller] \in {"auth_wait", "req_wait"}
          /\ call[Caller].op = "queryCache"
          /\ result'[Caller].kind = "error" ) =>
            /\ pc'[Caller] = "done"
            /\ result'[Caller].message =
                   IF pc[Caller] = "auth_wait"
                   THEN "Get token failed: Invalid application token"
                   ELSE "403: Access denied"
            /\ store' = store
            /\ net[Caller].warnings = {} =>
                   loc[Caller].cached =
                       IF loc[Caller].cacheKey \in DOMAIN store'
                       THEN store'[loc[Caller].cacheKey] ELSE NoEntry
    ]_vars

\* C22 witness: a queryCache whose lookup found an expired entry has failed
\* with the error of its data request, and the expired entry is stored.
C22_Witness ==
    /\ pc[Caller] = "done" /\ call[Caller].op = "queryCache"
    /\ result[Caller] = Thrown("403: Access denied")
    /\ \E k \in DOMAIN store : store[k].expires <= now

----------------------------------------------------------------------------
(* Claims about calls for several tables, under SpecTables *)

\* C21: every data request for a table carries a token that a successful
\* token fetch for that table returned, never the token of another table;
\* and when the token fetch fails no data request is sent.
C21_TokenOfOwnTable ==
    [][\A p \in Procs :
        /\ (pc[p] # "req_wait" /\ pc'[p] = "req_wait") =>
              /\ net'[p].data = 1
              /\ \E k \in 1..Len(issued') :
                     /\ loc'[p].auth = k
                     /\ issued'[k].realm = call'[p].realm
                     /\ issued'[k].dbid = call'[p].dbid
        /\ (pc[p] = "req_wait" /\ pc'[p] = "req_wait") => loc'[p].auth = loc[p].auth
        /\ (TokenFetchAnswered(p) /\ treq'[p].state = "threw") =>
              /\ pc'[p] = "done"
              /\ result'[p].kind = "error"
              /\ net'[p].data = 0
    ]_vars

\* C21 witness: two data requests for two tables of one realm are in
\* flight, each with the token of its own table.
C21_Witness ==
    \E p, q \in Procs :
        /\ pc[p] = "req_wait" /\ pc[q] = "req_wait"
        /\ call[p].realm = call[q].realm /\ call[p].dbid # call[q].dbid
        /\ loc[p].auth = 1 /\ loc[q].auth = 2
        /\ issued[1].dbid = call[p].dbid /\ issued[2].dbid = call[q].dbid

\* C23: a queryCache for a realm and a table is never served a payload that
\* a queryCache for another realm or another table stored, the query being
\* the same: each table having its own records, what a call is served from
\* the store is the records of its own table.
C23_IsolatedByRealmAndTable ==
    [][\A p \in Procs :
        (LookupAnswered(p) /\ pc'[p] = "done" /\ result'[p].kind = "ok") =>
            result'[p].val.raw =
                IF call[p].realm = RealmR /\ call[p].dbid = DbidTU THEN PayloadOne
                ELSE IF call[p].realm = RealmRT /\ call[p].dbid = DbidU THEN PayloadTwo
                ELSE PayloadNone
    ]_vars

----------------------------------------------------------------------------
(* Claims about clearCache, under SpecClear *)

\* C13: when clearCache completes the store holds no entry, of any realm,
\* table or key, expired or not; an empty store gets an entry only from the
\* set of a queryCache call, so that with no queryCache running when
\* clearCache completes the next queryCache, for any key, looks up an empty
\* store; and a lookup in an empty store leads to the network query.
C13_ClearRemovesEverything ==
    [][ /\ \A p \in Procs :
               (pc[p] = "clear_wait" /\ pc'[p] = "done" /\ result'[p].kind = "ok") =>
                   DOMAIN store' = {}
        /\ (DOMAIN store = {} /\ DOMAIN store' # {}) =>
               \E p \in Procs : WriteAnswered(p) /\ call[p].op = "queryCache"
        /\ \A p \in Procs :
               (LookupAnswered(p) /\ DOMAIN store = {}) =>
                   /\ pc'[p] \in {"auth_wait", "req_wait"}
                   /\ QueryBegun(p)
    ]_vars

\* C13 witness: a clearCache has completed, nothing is stored, and a
\* queryCache for a key that had an unexpired entry has looked it up, found
\* nothing and sent its request.
C13_Witness ==
    \E p, q \in Procs :
        /\ p # q
        /\ pc[p] = "done" /\ call[p].op = "clearCache" /\ result[p].kind = "ok"
        /\ pc[q] \in {"auth_wait", "req_wait"} /\ call[q].op = "queryCache"
        /\ loc[q].cached = NoEntry
        /\ DOMAIN store = {}

\* C25: a lookup changes nothing in the store: a hit neither rewrites the
\* entry nor extends its expiry, and an expired entry that is found is not
\* deleted. An entry leaves the store only when a clearCache completes, and
\* changes only when a queryCache writes under its key.
C25_LookupLeavesStore ==
    [][ /\ \A p \in Procs : LookupAnswered(p) => store' = store
        /\ \A k \in DOMAIN store :
               /\ k \notin DOMAIN store' =>
                      \E p \in Procs : pc[p] = "clear_wait" /\ pc'[p] = "done"
               /\ (k \in DOMAIN store' /\ store'[k] # store[k]) =>
                      \E p \in Procs : WriteAnswered(p) /\ loc[p].cacheKey = k
    ]_vars

\* C25 witness: one call has been served an unexpired entry and another has
\* found an expired one and gone to the network; the store is the one the
\* calls found, with both entries.
C25_Witness ==
    \E p, q \in Procs :
        /\ pc[p] = "done" /\ call[p].op = "queryCache"
        /\ result[p].kind = "ok" /\ net[p].data = 0
        /\ pc[q] \in {"auth_wait", "req_wait"}
        /\ loc[q].cached # NoEntry /\ loc[q].cached.expires <= now
        /\ store[loc[q].cacheKey] = loc[q].cached
        /\ store \in EarlierStores

----------------------------------------------------------------------------
(* Claims about a clearCache that races with a queryCache, under SpecRace *)

\* C24: a completed clearCache does not make the next queryCache miss. A
\* clearCache that completes leaves the calls in flight as they are; a
\* queryCache that has missed writes its entry when its set is answered,
\* whether or not the store has been cleared since its lookup; and a lookup
\* that finds an unexpired entry is served it with no network call, however
\* short the time since a clearCache returned.
C24_WriteAfterClear ==
    [][\A p \in Procs :
        /\ (pc[p] = "clear_wait" /\ pc'[p] = "done") =>
              \A q \in Procs \ {p} : pc'[q] = pc[q] /\ loc'[q] = loc[q]
        /\ WriteAnswered(p) =>
              /\ loc[p].cacheKey \in DOMAIN store'
              /\ store'[loc[p].cacheKey] = loc[p].entry
        /\ (LookupAnswered(p) /\ EntryOf(p) # NoEntry /\ now < EntryOf(p).expires) =>
              /\ pc'[p] = "done"
              /\ result'[p] = Returned(QbQueryResponse(EntryOf(p).data, call[p].dbid))
              /\ net'[p].auth + net'[p].data = 0
    ]_vars

\* C24 witness: p's queryCache found an expired entry, queried and is about
\* to write; the store has been cleared since, by a clearCache of q that has
\* returned; and q has issued the same queryCache, which is waiting for its
\* lookup.
C24_Witness ==
    \E p, q \in Procs :
        /\ p # q
        /\ pc[p] = "set_wait" /\ loc[p].cached # NoEntry
        /\ DOMAIN store = {}
        /\ pc[q] = "get_wait" /\ call[q] = call[p]
        /\ loc[p].entry.expires > now

----------------------------------------------------------------------------
(* Claims about the record and response functions, under SpecPure *)

\* C14: for every wire record with scalar values, over any set of field
\* ids, normalizeQbFields(unpackRecord(record, false)) has the fields of the
\* record, each with its wrapper, and, when the record has field "3" and the
\* class is the exported one, one more entry: rid, with the wrapper of
\* field "3".
C14_RoundTripAddsRid ==
    (out # NoValue /\ inp.fn = "unpackRecord" /\ ~inp.rekey) =>
        out.wire = IF inp.class = "exported" /\ "3" \in DOMAIN inp.record
                   THEN inp.record @@ ("rid" :> inp.record["3"])
                   ELSE inp.record

\* C14 as stated: the round trip of the exported class gives the original
\* record and nothing else, field "3" included.
C14_AsStated ==
    (out # NoValue /\ inp.fn = "unpackRecord" /\ ~inp.rekey /\ inp.class = "exported") => out.wire = inp.record

\* C14 witness: the record {"6": {value: "Bob"}, "3": {value: 42}} has been
\* unpacked by id in the exported class and normalized, and rid is there.
C14_Witness ==
    /\ out # NoValue /\ inp.fn = "unpackRecord" /\ ~inp.rekey /\ inp.class = "exported"
    /\ inp.record = RowBob
    /\ DOMAIN out.wire = {"3", "6", "rid"}

\* C15: with labels as keys a field whose id has no label keeps its id as
\* key: unpackRecord on {"6": {value: "Bob"}, "3": {value: 42}} with the
\* map {"6": "Name"} and rekey = true yields {"Name": "Bob", "3": 42,
\* "rid": 42}, and so does formattedRecords in both classes.
C15_UnlabelledKeepsId ==
    (out # NoValue /\ inp.fn = "unpackRecord" /\ inp.rekey) =>
        LET mapper == IF inp.class = "exported" /\ inp.fieldMap # NoValue
                      THEN inp.fieldMap ELSE inp.derived
            expected == ("Name" :> JStr(NameBob)) @@ ("3" :> JNum(42)) @@ ("rid" :> JNum(42))
        IN /\ \A id \in DOMAIN inp.record :
                  (id \notin DOMAIN mapper \/ mapper[id] = "") =>
                      /\ id \in DOMAIN out.flat
                      /\ out.flat[id] = inp.record[id].object.value
           /\ (inp.record = RowBob /\ mapper = ("6" :> "Name") /\ inp.class = "exported") =>
                  out.flat = expected
           /\ (inp.record = RowBob /\ inp.derived = ("6" :> "Name")) =>
                  out.formatted = expected

\* C15 as stated: the result is exactly {"Name": "Bob", "rid": 42}.
C15_AsStated ==
    (out # NoValue /\ inp.fn = "unpackRecord" /\ inp.rekey /\ inp.class = "exported" /\ inp.record = RowBob
        /\ inp.fieldMap = NoValue /\ inp.derived = ("6" :> "Name")) =>
        out.flat = ("Name" :> JStr(NameBob)) @@ ("rid" :> JNum(42))

\* C15 witness: the record of the scenario has been unpacked with the map
\* {"6": "Name"} and labels as keys, and the result has a key "3".
C15_Witness ==
    /\ out # NoValue /\ inp.fn = "unpackRecord" /\ inp.rekey /\ inp.class = "exported" /\ inp.record = RowBob
    /\ inp.fieldMap = NoValue /\ inp.derived = ("6" :> "Name")
    /\ "3" \in DOMAIN out.flat /\ "Name" \in DOMAIN out.flat

\* C16: unpackRecord keys each field by its label when rekey is true and
\* the effective map (the supplied map if there is one, else the map derived
\* from the fields of the response) has a label for its id, and by its id
\* otherwise; and when the record has field "3" the result also has rid with
\* the value of that field, whatever rekey is.
C16_KeysAndRid ==
    out # NoValue /\ inp.fn = "unpackRecord" =>
        LET effective == IF inp.fieldMap # NoValue THEN inp.fieldMap ELSE inp.derived
            keyOf(id) == IF inp.rekey /\ id \in DOMAIN effective /\ effective[id] # ""
                         THEN effective[id] ELSE id
        IN /\ \A id \in DOMAIN inp.record :
                  /\ keyOf(id) \in DOMAIN out.flat
                  /\ out.flat[keyOf(id)] = inp.record[id].object.value
           /\ DOMAIN out.flat \subseteq {keyOf(id) : id \in DOMAIN inp.record} \cup {"rid"}
           /\ "3" \in DOMAIN inp.record =>
                  /\ "rid" \in DOMAIN out.flat
                  /\ out.flat["rid"] = inp.record["3"].object.value

\* C17: for every upsert answer hasErrors is true exactly when
\* metadata.lineErrors has an entry, wasSuccessful exactly when hasErrors is
\* false and totalNumberOfRecordsProcessed > 0, createdCount and
\* updatedCount are the lengths of the id lists (0 when absent),
\* affectedRecordIds is the created ids followed by the updated ids, and
\* hasErrors and wasSuccessful are never both true.
C17_UpsertResponse ==
    out # NoValue /\ inp.fn = "QbUpsertResponse" =>
        LET raw == inp.rawResponse
            md == IF "metadata" \in DOMAIN raw THEN raw.metadata ELSE <<>>
            lines == IF "lineErrors" \in DOMAIN md THEN Len(md.lineErrors.obj) ELSE 0
            created == IF "createdRecordIds" \in DOMAIN md THEN md.createdRecordIds ELSE <<>>
            updated == IF "updatedRecordIds" \in DOMAIN md THEN md.updatedRecordIds ELSE <<>>
            total == IF "totalNumberOfRecordsProcessed" \in DOMAIN md
                     THEN md.totalNumberOfRecordsProcessed ELSE 0
        IN /\ out.hasErrors <=> lines >= 1
           /\ out.wasSuccessful <=> (~out.hasErrors /\ total > 0)
           /\ out.createdCount = Len(created)
           /\ out.updatedCount = Len(updated)
           /\ out.affectedRecordIds = created \o updated
           /\ ~(out.hasErrors /\ out.wasSuccessful)

\* C17 witness: an answer with a line error, 5 records processed, two
\* created ids and one updated id has been read.
C17_Witness ==
    /\ out # NoValue /\ inp.fn = "QbUpsertResponse"
    /\ out.hasErrors /\ ~out.wasSuccessful /\ out.totalProcessed = 5
    /\ out.affectedRecordIds = <<10, 11, 12>>

\* C18: normalizeQbFields gives one entry for each entry of its input, under
\* the same key: an object with a value property as it is, any other value v
\* (null, an object without a value property) as {value: v}; and
\* normalizing the result again changes nothing.
C18_Normalize ==
    (out # NoValue /\ inp.fn = "normalizeQbFields") =>
        LET wrappers == { [object |-> [value |-> JNum(42)]], [object |-> [value |-> JNull]],
                          [object |-> [value |-> JNum(1), extra |-> JNull]] }
        IN /\ DOMAIN out.once = DOMAIN inp.fields
           /\ \A k \in DOMAIN inp.fields :
                  out.once[k] = IF inp.fields[k] \in wrappers THEN inp.fields[k]
                                ELSE [object |-> [value |-> inp.fields[k]]]
           /\ out.twice = out.once

\* C18 witness: an input with null under one key and a wrapper of null under
\* the other has been normalized, and both entries are the wrapper of null.
C18_Witness ==
    /\ out # NoValue /\ inp.fn = "normalizeQbFields"
    /\ inp.fields = ("6" :> JNull) @@ ("7" :> Wrap(JNull))
    /\ out.once["6"] = out.once["7"]

----------------------------------------------------------------------------
(* The cache key as a function of its inputs *)

\* Two queryCache calls on the same client and table.
InitKey ==
    /\ Init!1 /\ Init!2 /\ Init!3 /\ Init!4 /\ Init!5 /\ Init!6 /\ Init!7
    /\ Init!8 /\ Init!9 /\ Init!10 /\ Init!11 /\ Init!12
    /\ inp \in [realm : {RealmR}, dbid : Dbids, a : QueryShapes, b : QueryShapes]
    /\ out = NoValue

\* Both calls compute their key (the first statement of queryCache).
ComputeKeys ==
    /\ out = NoValue
    /\ out' = [ka |-> KeyOf(inp.realm, inp.dbid, inp.a),
               kb |-> KeyOf(inp.realm, inp.dbid, inp.b)]
    /\ UNCHANGED <<now, tempTokens, timers, store, pc, call, loc, result, net, treq,
                   issued, calls, inp>>

SpecKey == InitKey /\ [][ComputeKeys]_vars

\* C6: on one realm and table, two calls use the same key exactly when
\* their fields, predicate, sort and options are all the same.
C6_KeyDeterminesQuery ==
    out # NoValue => ((inp.a = inp.b) <=> (out.ka = out.kb))

\* C6 witness: two calls that differ only in the sort got different keys.
C6_Witness ==
    /\ out # NoValue
    /\ inp.a.sort # inp.b.sort
    /\ [inp.a EXCEPT !.sort = JNull] = [inp.b EXCEPT !.sort = JNull]
    /\ out.ka # out.kb

====
